---- MODULE Spec2Model ----
(***************************************************************************)
(* Model of the VR session data server (src/main.py): the nested <-> flat  *)
(* record transcoding done by the upload and download handlers, and the    *)
(* session store behind them, on its two backends (SQLite, PostgreSQL).    *)
(***************************************************************************)
EXTENDS Integers, Sequences, FiniteSets, TLC

(***************************************************************************)
(* JSON / Python values.  Every value carries a tag; a Python exception    *)
(* raised while a value is computed is the value Raise.                    *)
(***************************************************************************)
Null == [t |-> "null"]
Raise == [t |-> "raise"]
Str(s) == [t |-> "str", s |-> s]
Num(n) == [t |-> "num", n |-> n]
Bool(b) == [t |-> "bool", b |-> b]
Obj(f) == [t |-> "obj", o |-> f]
EmptyObj == Obj(<<>>)

\* dict.get(k, default) on a Python value: only a dict has .get; on None, a
\* string, a number or a list the attribute lookup raises AttributeError.
PyGet(v, k, default) ==
    IF v.t = "raise" THEN Raise
    ELSE IF v.t # "obj" THEN Raise
    ELSE IF k \in DOMAIN v.o THEN v.o[k]
    ELSE default

(***************************************************************************)
(* The 26 data columns, the nested path each is read from, and its SQL     *)
(* type in the CREATE TABLE statements.                                    *)
(***************************************************************************)
ColumnOrder ==
    << "session_id", "phase", "area", "timestamp", "speaker", "text",
       "hmd_position_x", "hmd_position_y", "hmd_position_z",
       "hmd_gaze_x", "hmd_gaze_y", "hmd_gaze_z",
       "hmd_gaze_actor", "hmd_movement_speed",
       "controller_r_x", "controller_r_y", "controller_r_z",
       "controller_l_x", "controller_l_y", "controller_l_z",
       "controller_r_actor", "controller_l_actor",
       "controller_r_speed", "controller_l_speed",
       "user_emotion", "emotion_window_flag" >>

Columns == {ColumnOrder[i] : i \in 1..Len(ColumnOrder)}

Path ==
    [ session_id          |-> <<"session_id">>,
      phase               |-> <<"phase">>,
      area                |-> <<"area">>,
      timestamp           |-> <<"timestamp">>,
      speaker             |-> <<"conversation_data", "speaker">>,
      text                |-> <<"conversation_data", "text">>,
      hmd_position_x      |-> <<"hmd_data", "position", "x">>,
      hmd_position_y      |-> <<"hmd_data", "position", "y">>,
      hmd_position_z      |-> <<"hmd_data", "position", "z">>,
      hmd_gaze_x          |-> <<"hmd_data", "gaze_vector", "x">>,
      hmd_gaze_y          |-> <<"hmd_data", "gaze_vector", "y">>,
      hmd_gaze_z          |-> <<"hmd_data", "gaze_vector", "z">>,
      hmd_gaze_actor      |-> <<"hmd_data", "gaze_actor">>,
      hmd_movement_speed  |-> <<"hmd_data", "movement_speed">>,
      controller_r_x      |-> <<"controller_data", "r_position", "x">>,
      controller_r_y      |-> <<"controller_data", "r_position", "y">>,
      controller_r_z      |-> <<"controller_data", "r_position", "z">>,
      controller_l_x      |-> <<"controller_data", "l_position", "x">>,
      controller_l_y      |-> <<"controller_data", "l_position", "y">>,
      controller_l_z      |-> <<"controller_data", "l_position", "z">>,
      controller_r_actor  |-> <<"controller_data", "r_interacted_actor">>,
      controller_l_actor  |-> <<"controller_data", "l_interacted_actor">>,
      controller_r_speed  |-> <<"controller_data", "r_movement_speed">>,
      controller_l_speed  |-> <<"controller_data", "l_movement_speed">>,
      user_emotion        |-> <<"user_emotion">>,
      emotion_window_flag |-> <<"emotion_window_flag">> ]

TextColumns ==
    { "session_id", "phase", "area", "timestamp", "speaker", "text",
      "hmd_gaze_actor", "controller_r_actor", "controller_l_actor",
      "user_emotion" }

ColType(c) ==
    IF c \in TextColumns THEN "TEXT"
    ELSE IF c = "emotion_window_flag" THEN "BOOLEAN"
    ELSE "REAL"

\* record.get(k1, {}).get(k2, {}).get(k3): every step but the last defaults to
\* the empty dict, the last to None.
RECURSIVE Extract(_, _)
Extract(v, path) ==
    IF Len(path) = 1 THEN PyGet(v, path[1], Null)
    ELSE Extract(PyGet(v, path[1], EmptyObj), Tail(path))

\* The parameter tuple of the INSERT statement: one value per column; a value
\* is Raise when evaluating its expression raised.
InsertArgs(record) == [c \in Columns |-> Extract(record, Path[c])]

ArgsRaise(args) == \E c \in Columns : args[c].t = "raise"

(***************************************************************************)
(* The two backends.  What a column holds after an INSERT, as Python reads *)
(* it back: SQLite applies the column's type affinity (BOOLEAN is NUMERIC: *)
(* True is bound as the integer 1), PostgreSQL's REAL is a 4-byte float.   *)
(* A JSON number n stands for the float n.0.                               *)
(***************************************************************************)
Backends == {"pg", "sqlite"}

Float4Exact == 2^24

\* Round-to-nearest-even of an integer-valued double to a 4-byte float
\* (exact up to 2^24, multiples of 2 from there to 2^25).
Float4(n) ==
    IF n <= Float4Exact THEN n
    ELSE IF n % 2 = 0 THEN n
    ELSE IF (n \div 2) % 2 = 0 THEN 2 * (n \div 2)
    ELSE 2 * (n \div 2) + 2

\* The stored value of column c for parameter v.  Defined for the parameter
\* types the uploads of this model send: None, a dict (which neither driver
\* can bind) and a value of the column's own type.
Coerce(b, c, v) ==
    CASE v.t = "null" -> Null
      [] v.t = "obj" -> Raise
      [] v.t = "str" /\ ColType(c) = "TEXT" -> v
      [] v.t = "num" /\ ColType(c) = "REAL" ->
            IF b = "sqlite" THEN v ELSE Num(Float4(v.n))
      [] v.t = "bool" /\ ColType(c) = "BOOLEAN" ->
            IF b = "sqlite" THEN Num(IF v.b THEN 1 ELSE 0) ELSE v

\* session_id TEXT NOT NULL
NotNullViolated(args) == args["session_id"].t = "null"

(***************************************************************************)
(* Uploaded files.  A file has a name (ending in .json or not) and a body: *)
(* text that is not JSON, or a JSON value.                                 *)
(***************************************************************************)
Invalid == [t |-> "invalid"]
List(l) == [t |-> "list", l |-> l]

\* A record with every field set, as create_test_data builds them.
FullRecord(sid, ts, speaker, emotion, flag) ==
    Obj([ session_id |-> Str(sid), phase |-> Str("test_phase"),
          area |-> Str("test_area"), timestamp |-> Str(ts),
          conversation_data |->
              Obj([speaker |-> Str(speaker), text |-> Str("hello")]),
          hmd_data |->
              Obj([ position |-> Obj([x |-> Num(1), y |-> Num(2), z |-> Num(0)]),
                    gaze_vector |-> Obj([x |-> Num(0), y |-> Num(0), z |-> Num(1)]),
                    gaze_actor |-> Str("ai_avatar"),
                    movement_speed |-> Num(1) ]),
          controller_data |->
              Obj([ r_position |-> Obj([x |-> Num(1), y |-> Num(2), z |-> Num(0)]),
                    l_position |-> Obj([x |-> Num(3), y |-> Num(2), z |-> Num(0)]),
                    r_interacted_actor |-> Str("button_1"),
                    l_interacted_actor |-> Str("button_2"),
                    r_movement_speed |-> Num(1),
                    l_movement_speed |-> Num(2) ]),
          user_emotion |-> Str(emotion),
          emotion_window_flag |-> Bool(flag) ])

\* Only session_id and user_emotion set.
MinRecord(sid, emotion) ==
    Obj([session_id |-> Str(sid), user_emotion |-> Str(emotion)])

\* Some sub-objects present with some of their leaves, the rest absent; the
\* x coordinate is a double that no 4-byte float represents.
PartialRecord(sid) ==
    Obj([ session_id |-> Str(sid),
          conversation_data |-> Obj([speaker |-> Str("user")]),
          hmd_data |-> Obj([ position |-> Obj([x |-> Num(Float4Exact + 1)]),
                             movement_speed |-> Num(2) ]),
          controller_data |-> EmptyObj ])

\* No session_id.
AnonymousRecord == Obj([user_emotion |-> Str("happy")])

\* The intermediate objects of the 26 paths.
Intermediates ==
    << <<"conversation_data">>, <<"hmd_data">>, <<"hmd_data", "position">>,
       <<"hmd_data", "gaze_vector">>, <<"controller_data">>,
       <<"controller_data", "r_position">>, <<"controller_data", "l_position">> >>

\* A record whose intermediate at `path` is supplied as v, not as an object.
RECURSIVE Nested(_, _)
Nested(path, v) ==
    IF Len(path) = 0 THEN v ELSE Obj(path[1] :> Nested(Tail(path), v))

HollowRecord(sid, path, v) ==
    Obj(("session_id" :> Str(sid)) @@ ("user_emotion" :> Str("happy"))
        @@ Nested(path, v).o)

File(ext, body) == [json_ext |-> ext, body |-> body]

BaseFiles ==
    << File(TRUE, Invalid),
       File(TRUE, MinRecord("s1", "happy")),
       File(FALSE, List(<<MinRecord("s1", "happy")>>)),
       File(TRUE, List(<<>>)),
       File(TRUE, List(<< FullRecord("s1", "9", "user", "happy", TRUE),
                          FullRecord("s1", "10", "ai", "excited", FALSE) >>)),
       File(TRUE, List(<<MinRecord("s2", "happy"), MinRecord("s3", "")>>)),
       File(TRUE, List(<<PartialRecord("s1")>>)),
       File(TRUE, List(<<MinRecord("s2", "sad"), Str("oops")>>)),
       File(TRUE, List(<<MinRecord("s3", "happy"), AnonymousRecord>>)) >>

HollowFiles ==
    [i \in 1..Len(Intermediates) |->
        File(TRUE, List(<<HollowRecord("s2", Intermediates[i],
                                       IF i % 2 = 0 THEN Null ELSE Str("n/a"))>>))]

\* Records that differ in their emotion only: six emotions, one of them
\* twice, one record with the empty emotion and one with none.
Emotions == <<"happy", "excited", "sad", "angry", "calm", "bored">>

StatsFiles ==
    << File(TRUE, List(<< MinRecord("s1", Emotions[1]), MinRecord("s1", Emotions[1]),
                          MinRecord("s1", Emotions[2]), MinRecord("s2", Emotions[3]),
                          MinRecord("s2", "") >>)),
       File(TRUE, List(<< MinRecord("s1", Emotions[4]), MinRecord("s2", Emotions[5]),
                          MinRecord("s2", Emotions[6]),
                          Obj([session_id |-> Str("s1")]) >>)) >>

Files == BaseFiles \o HollowFiles \o StatsFiles

GeneralUploads == 1..(Len(BaseFiles) + Len(HollowFiles))
StatsUploads == (Len(BaseFiles) + Len(HollowFiles) + 1)..Len(Files)

(***************************************************************************)
(* State.                                                                  *)
(***************************************************************************)
VARIABLES
    config,     \* the environment: "vercel" (VERCEL set), "sqlite" (USE_SQLITE
                \* set) or "default"
    pgUp,       \* whether the PostgreSQL server accepts connections
    phase,      \* "boot" before init_db ran, then "serving" or "failed"
    startup,    \* the backend init_db connected to
    db,         \* per backend: whether the table exists, its rows, its id counter
    now,        \* the clock CURRENT_TIMESTAMP reads
    resp,       \* the last handler's response, with its request
    prevList,   \* history: the /api/sessions response right before resp, when
                \* it was the first page (offset 0) and resp is the page of
                \* the same limit that follows it
    pre,        \* history: the rows of each backend before the last handler ran
    ingested,   \* history: per backend, the uploaded record each row id came
                \* from, as <<file, index of the element>>
    conns,      \* the connections the last handler acquired, in the order of
                \* its get_db_connection calls, each open or closed as the
                \* handler left it when it returned or raised
    txn,        \* per worker process, the upload it is running: its position
                \* in the handler, the file, the next element, the backend of
                \* its connection and the rows it inserted and has not committed
    seen        \* the rows the last SELECT of a handler read, with the handler
                \* and the workers that had uncommitted rows at that moment

vars == <<config, pgUp, phase, startup, db, now, resp, prevList, pre, ingested,
          conns, txn, seen>>

\* What the handlers that run one request at a time leave alone.
workers == <<txn, seen>>

MaxId == 3
MaxStatsId == 9
MaxClock == 1

NoResp == [op |-> "none"]

\* The server processes (workers, serverless instances) that share a database.
Workers == {"w1", "w2"}

\* A worker that is not in upload_session_data.
Idle == [pc |-> "idle", file |-> 0, i |-> 0, backend |-> "none", rows |-> {},
         wrote |-> FALSE, seq0 |-> 0]

\* A connection to backend b after conn.close(), and one no conn.close() was
\* reached for.
Closed(b) == [backend |-> b, closed |-> TRUE]
Open(b) == [backend |-> b, closed |-> FALSE]

\* get_db_connection: the backend the connection goes to, "none" when it raises.
GetDbConnection ==
    CASE config = "vercel" -> IF pgUp THEN "pg" ELSE "none"
      [] config = "sqlite" -> "sqlite"
      [] config = "default" -> IF pgUp THEN "pg" ELSE "sqlite"

Rows(b) == db[b].rows
Snapshot == [b \in Backends |-> db[b].rows]

Init ==
    /\ config \in {"vercel", "sqlite", "default"}
    \* with USE_SQLITE set the server is never contacted
    /\ pgUp \in (IF config = "sqlite" THEN {FALSE} ELSE BOOLEAN)
    /\ phase = "boot"
    /\ startup = "none"
    /\ db = [b \in Backends |-> [table |-> FALSE, rows |-> {}, seq |-> 0]]
    /\ now = 0
    /\ resp = NoResp
    /\ prevList = NoResp
    /\ pre = [b \in Backends |-> {}]
    /\ ingested = [b \in Backends |-> <<>>]
    /\ conns = <<>>
    /\ txn = [p \in Workers |-> Idle]
    /\ seen = [op |-> "none", rows |-> {}, inflight |-> {}]

\* init_db, run once when the module is loaded: CREATE TABLE IF NOT EXISTS on
\* the backend the connection goes to; an exception ends the process.
InitDb ==
    /\ phase = "boot"
    /\ LET b == GetDbConnection IN
        /\ startup' = b
        /\ phase' = IF b = "none" THEN "failed" ELSE "serving"
        /\ db' = IF b = "none" THEN db ELSE [db EXCEPT ![b].table = TRUE]
        /\ conns' = IF b = "none" THEN <<>> ELSE <<Closed(b)>>
    /\ UNCHANGED <<config, pgUp, now, resp, prevList, pre, ingested>>
    /\ UNCHANGED workers

\* The clock advances.
Tick ==
    /\ now < MaxClock
    /\ now' = now + 1
    /\ UNCHANGED <<config, pgUp, phase, startup, db, resp, prevList, pre, ingested,
                   conns>>
    /\ UNCHANGED workers

(***************************************************************************)
(* POST /upload                                                            *)
(***************************************************************************)
\* The for loop over the parsed array on backend b, from element i on: each
\* element's INSERT in turn, stopping at the first that raises.  seq is the
\* id counter (SERIAL / AUTOINCREMENT), t the value of CURRENT_TIMESTAMP.
RECURSIVE InsertLoop(_, _, _, _, _, _, _)
InsertLoop(b, hasTable, data, i, rows, seq, t) ==
    LET failed == [ok |-> FALSE, rows |-> rows, seq |-> seq,
                   records_added |-> i - 1]
    IN
    IF i > Len(data)
    THEN [ok |-> TRUE, rows |-> rows, seq |-> seq, records_added |-> i - 1]
    ELSE LET args == InsertArgs(data[i]) IN
        IF ArgsRaise(args) THEN failed
        ELSE LET stored == [c \in Columns |-> Coerce(b, c, args[c])] IN
            IF \E c \in Columns : stored[c].t = "raise" THEN failed
            ELSE IF ~hasTable THEN failed
            ELSE IF NotNullViolated(args)
                \* the SERIAL default is taken before the constraint is checked
                THEN [failed EXCEPT !.seq = IF b = "pg" THEN seq + 1 ELSE seq]
            ELSE InsertLoop(b, hasTable, data, i + 1,
                            rows \cup {[id |-> seq + 1, created_at |-> t,
                                        cols |-> stored]},
                            seq + 1, t)

\* The loop as the handler runs it: from the first element, in the rows and
\* with the counter of backend b.
RunInsertsDropsLast(b, d, data, t) ==
    InsertLoop(b, d.table, SubSeq(data, 1, Len(data) - 1), 1, d.rows, d.seq, t)

RunInserts(b, d, data, t) == InsertLoop(b, d.table, data, 1, d.rows, d.seq, t)

\* The backend after a loop that raised: the connection is dropped
\* uncommitted, so the rows are rolled back, and with them SQLite's counter;
\* PostgreSQL's sequence keeps what it handed out.
AfterFailureKeepsRows(b, d, run) == [d EXCEPT !.rows = run.rows, !.seq = run.seq]

AfterFailure(b, d, run) == [d EXCEPT !.seq = IF b = "pg" THEN run.seq ELSE @]

\* The batch takes the place of the rows that were stored.
AfterCommitReplaces(b, d, run) == [d EXCEPT !.rows = run.rows \ d.rows, !.seq = run.seq]

\* The backend after conn.commit().
AfterCommit(b, d, run) == [d EXCEPT !.rows = run.rows, !.seq = run.seq]

DistinctSessions(rows) == {r.cols["session_id"] : r \in rows}

\* SELECT COUNT(*) and SELECT COUNT(DISTINCT session_id)
TotalRecords(rows) == Cardinality(rows)
UniqueSessions(rows) == Cardinality(DistinctSessions(rows))

UploadFailed(status, b, f) ==
    [op |-> "upload", status |-> status, backend |-> b, file |-> f,
     records_added |-> 0, total_sessions |-> 0]

Upload(f, maxId) ==
    /\ phase = "serving"
    /\ LET file == Files[f]
           b == GetDbConnection
       IN
       /\ pre' = Snapshot
       /\ prevList' = NoResp
       /\ IF ~file.json_ext \/ file.body.t = "invalid" THEN
              \* rejected by name, or json.loads raised JSONDecodeError
              /\ resp' = UploadFailed(400, "none", f)
              /\ conns' = <<>>
              /\ UNCHANGED <<db, ingested>>
          ELSE IF file.body.t # "list" THEN
              \* the HTTPException(400) is raised inside the try block and
              \* caught by `except Exception`, which answers 500
              /\ resp' = UploadFailed(500, "none", f)
              /\ conns' = <<>>
              /\ UNCHANGED <<db, ingested>>
          ELSE IF b = "none" THEN
              /\ resp' = UploadFailed(500, "none", f)
              /\ conns' = <<>>
              /\ UNCHANGED <<db, ingested>>
          ELSE
              /\ db[b].seq + Len(file.body.l) <= maxId
              /\ LET data == file.body.l
                     run == RunInserts(b, db[b], data, now)
                 IN
                 IF ~run.ok THEN
                     /\ db' = [db EXCEPT ![b] = AfterFailure(b, @, run)]
                     /\ resp' = UploadFailed(500, b, f)
                     \* the except clause has no conn.close()
                     /\ conns' = <<Open(b)>>
                     /\ UNCHANGED ingested
                 ELSE
                     /\ db' = [db EXCEPT ![b] = AfterCommit(b, @, run)]
                     /\ ingested' = [ingested EXCEPT ![b] =
                            [id \in (DOMAIN @) \cup
                                    {db[b].seq + k : k \in 1..Len(data)} |->
                                IF id > db[b].seq THEN <<f, id - db[b].seq>>
                                ELSE @[id]]]
                     /\ resp' =
                          IF ~db[b].table
                          \* nothing was inserted; the COUNT query raises
                          THEN UploadFailed(500, b, f)
                          ELSE [op |-> "upload", status |-> 200, backend |-> b,
                                file |-> f,
                                records_added |-> run.records_added,
                                total_sessions |-> UniqueSessions(run.rows)]
                     \* the connection of the loop is closed after the
                     \* commit, the one of the COUNT query after the query
                     /\ conns' = IF ~db[b].table THEN <<Closed(b), Open(b)>>
                                 ELSE <<Closed(b), Closed(b)>>
    /\ UNCHANGED <<config, pgUp, phase, startup, now>>
    /\ UNCHANGED workers

(***************************************************************************)
(* What the SQL engine answers.  ORDER BY fixes the order of rows only up  *)
(* to the sort key: rows with equal keys come in an order the engine       *)
(* chooses, anew for every statement.                                      *)
(***************************************************************************)
\* The sequences that list every element of S once, in an order where x comes
\* before y only if le[<<x, y>>].
RECURSIVE Orderings(_, _)
Orderings(S, le) ==
    IF S = {} THEN {<<>>}
    ELSE UNION { { <<x>> \o rest : rest \in Orderings(S \ {x}, le) } :
                 x \in {y \in S : \A z \in S : le[<<y, z>>]} }

Min(a, b) == IF a < b THEN a ELSE b

\* LIMIT l OFFSET o
LimitOffset(seq, l, o) == SubSeq(seq, o + 1, Min(Len(seq), o + l))

\* The code points of the timestamp strings the uploads carry.
Chars == ("9" :> <<57>>) @@ ("10" :> <<49, 48>>)

\* a <= b for two strings given as code points: the comparison of TEXT values.
RECURSIVE LexLeq(_, _)
LexLeq(a, b) ==
    IF Len(a) = 0 THEN TRUE
    ELSE IF Len(b) = 0 THEN FALSE
    ELSE IF a[1] # b[1] THEN a[1] < b[1]
    ELSE LexLeq(Tail(a), Tail(b))

\* The timestamps compared as the numbers they spell.
TimestampLeqParsed(b, x, y) ==
    LET tx == x.cols["timestamp"]
        ty == y.cols["timestamp"]
    IN  IF tx.t = "null" /\ ty.t = "null" THEN TRUE
        ELSE IF tx.t = "null" THEN b = "sqlite"
        ELSE IF ty.t = "null" THEN b = "pg"
        ELSE IF Len(Chars[tx.s]) # Len(Chars[ty.s])
             THEN Len(Chars[tx.s]) < Len(Chars[ty.s])
        ELSE LexLeq(Chars[tx.s], Chars[ty.s])

\* ORDER BY timestamp, ascending: NULL sorts first on SQLite, last on
\* PostgreSQL.
TimestampLeq(b, x, y) ==
    LET tx == x.cols["timestamp"]
        ty == y.cols["timestamp"]
    IN  IF tx.t = "null" /\ ty.t = "null" THEN TRUE
        ELSE IF tx.t = "null" THEN b = "sqlite"
        ELSE IF ty.t = "null" THEN b = "pg"
        ELSE LexLeq(Chars[tx.s], Chars[ty.s])

\* SELECT * FROM session_records WHERE session_id = s ORDER BY timestamp
SessionQuery(b, s) ==
    LET S == {r \in Rows(b) : r.cols["session_id"] = Str(s)}
    IN  Orderings(S, [p \in S \X S |-> TimestampLeq(b, p[1], p[2])])

(***************************************************************************)
(* GET /api/sessions                                                       *)
(***************************************************************************)
MaxLimit == 2
MaxOffset == 2

RECURSIVE MinOf(_)
MinOf(S) ==
    LET x == CHOOSE y \in S : TRUE
    IN  IF S = {x} THEN x ELSE Min(x, MinOf(S \ {x}))

RECURSIVE MaxOf(_)
MaxOf(S) ==
    LET x == CHOOSE y \in S : TRUE
    IN  IF S = {x} THEN x
        ELSE LET m == MaxOf(S \ {x}) IN IF x > m THEN x ELSE m

SessionGroupsLatest(rows) ==
    { [ session_id |-> s,
        records |-> Cardinality({r \in rows : r.cols["session_id"] = s}),
        created |-> MaxOf({r.created_at : r \in {q \in rows : q.cols["session_id"] = s}}) ]
      : s \in DistinctSessions(rows) }

\* SELECT session_id, COUNT(*) as records, MIN(created_at) as created
\* FROM session_records GROUP BY session_id
SessionGroups(rows) ==
    { [ session_id |-> s,
        records |-> Cardinality({r \in rows : r.cols["session_id"] = s}),
        created |-> MinOf({r.created_at : r \in {q \in rows : q.cols["session_id"] = s}}) ]
      : s \in DistinctSessions(rows) }

\* ... ORDER BY created DESC LIMIT l OFFSET o
SessionsQuery(rows, l, o) ==
    LET G == SessionGroups(rows)
    IN  { LimitOffset(order, l, o) :
          order \in Orderings(G, [p \in G \X G |-> p[1].created >= p[2].created]) }

\* A timestamp as text: the instant, the character between date and time,
\* and what follows the time.  SQLite hands created_at out as the text
\* 'YYYY-MM-DD HH:MM:SS'; the handler replaces the space by T and appends Z.
\* psycopg2 hands out a datetime, which the response encoder writes in ISO
\* form: T between date and time, nothing after.
SqliteText(at) == [at |-> at, sep |-> " ", suffix |-> ""]
ReplaceSpaceByT(ts) == [ts EXCEPT !.sep = IF @ = " " THEN "T" ELSE @]
AppendZ(ts) == [ts EXCEPT !.suffix = @ \o "Z"]
IsoFormat(at) == [at |-> at, sep |-> "T", suffix |-> ""]

FormatCreated(b, at) ==
    IF b = "sqlite" THEN AppendZ(ReplaceSpaceByT(SqliteText(at)))
    ELSE IsoFormat(at)

SessionItems(b, page) ==
    [i \in 1..Len(page) |-> [page[i] EXCEPT !.created = FormatCreated(b, @)]]

HasMoreNonEmpty(items, limit) == Len(items) > 0

HasMore(items, limit) == Len(items) = limit

\* The connection of a handler that opens one, runs its statements and then
\* calls conn.close(): get_db_connection raising leaves none, a statement
\* raising (the table is missing) skips the conn.close() that follows it.
ConnsOfQuery(b) ==
    IF b = "none" THEN <<>>
    ELSE IF ~db[b].table THEN <<Open(b)>>
    ELSE <<Closed(b)>>

\* The JSON object get_sessions returns, as the function from its keys to
\* their values.
SessionsBody(items, total, has_more) ==
    ("items" :> items) @@ ("total" :> total) @@ ("has_more" :> has_more)

\* resp keeps the request (limit, offset), the backend, the response (body)
\* and, for reading, the values of the body and whether it carries an error.
SessionsError(l, o, b) ==
    [op |-> "sessions", limit |-> l, offset |-> o, backend |-> b,
     items |-> <<>>, total |-> 0, has_more |-> FALSE, error |-> TRUE,
     body |-> SessionsBody(<<>>, 0, FALSE)
                @@ ("error" :> "Database connection issue")]

GetSessions(l, o) ==
    /\ phase = "serving"
    /\ LET b == GetDbConnection IN
       IF b = "none" THEN resp' = SessionsError(l, o, b)
       ELSE IF ~db[b].table THEN resp' = SessionsError(l, o, b)
       ELSE \E page \in SessionsQuery(Rows(b), l, o) :
            LET total_sessions == UniqueSessions(Rows(b))
                sessions == SessionItems(b, page)
            IN  resp' =
                  IF total_sessions = 0
                  THEN [op |-> "sessions", limit |-> l, offset |-> o,
                        backend |-> b, items |-> <<>>, total |-> 0,
                        has_more |-> FALSE, error |-> FALSE,
                        body |-> SessionsBody(<<>>, 0, FALSE)
                                   @@ ("message" :> "No sessions found in database")]
                  ELSE [op |-> "sessions", limit |-> l, offset |-> o,
                        backend |-> b, items |-> sessions,
                        total |-> total_sessions,
                        has_more |-> HasMore(sessions, l), error |-> FALSE,
                        body |-> SessionsBody(sessions, total_sessions,
                                              HasMore(sessions, l))]
    /\ prevList' = IF resp.op = "sessions" /\ ~resp.error /\ resp.offset = 0
                       /\ l = resp.limit /\ o = l
                    THEN resp ELSE NoResp
    /\ pre' = Snapshot
    /\ conns' = ConnsOfQuery(GetDbConnection)
    /\ UNCHANGED <<config, pgUp, phase, startup, db, now, ingested>>
    /\ UNCHANGED workers

(***************************************************************************)
(* GET /api/sessions/{session_id} and .../download                         *)
(***************************************************************************)
SessionIds == {"s1", "s2", "unknown"}

GetSessionById(s) ==
    /\ phase = "serving"
    /\ LET b == GetDbConnection IN
       IF b = "none" \/ (b # "none" /\ ~db[b].table)
       THEN resp' = [op |-> "session", status |-> 500, backend |-> b,
                     session_id |-> s, records |-> <<>>]
       ELSE \E sessions \in SessionQuery(b, s) :
            resp' = [op |-> "session", status |-> 200, backend |-> b,
                     session_id |-> s, records |-> sessions]
    /\ prevList' = NoResp
    /\ pre' = Snapshot
    /\ conns' = ConnsOfQuery(GetDbConnection)
    /\ UNCHANGED <<config, pgUp, phase, startup, db, now, ingested>>
    /\ UNCHANGED workers

\* The nested record rebuilt from a row.
Unflatten(record) ==
    LET col == record.cols IN
    Obj([ session_id |-> col["session_id"],
          phase |-> col["phase"],
          area |-> col["area"],
          timestamp |-> col["timestamp"],
          conversation_data |->
              Obj([speaker |-> col["speaker"], text |-> col["text"]]),
          hmd_data |->
              Obj([ position |-> Obj([ x |-> col["hmd_position_x"],
                                        y |-> col["hmd_position_y"],
                                        z |-> col["hmd_position_z"] ]),
                    gaze_vector |-> Obj([ x |-> col["hmd_gaze_x"],
                                           y |-> col["hmd_gaze_y"],
                                           z |-> col["hmd_gaze_z"] ]),
                    gaze_actor |-> col["hmd_gaze_actor"],
                    movement_speed |-> col["hmd_movement_speed"] ]),
          controller_data |->
              Obj([ r_position |-> Obj([ x |-> col["controller_r_x"],
                                          y |-> col["controller_r_y"],
                                          z |-> col["controller_r_z"] ]),
                    l_position |-> Obj([ x |-> col["controller_l_x"],
                                          y |-> col["controller_l_y"],
                                          z |-> col["controller_l_z"] ]),
                    r_interacted_actor |-> col["controller_r_actor"],
                    l_interacted_actor |-> col["controller_l_actor"],
                    r_movement_speed |-> col["controller_r_speed"],
                    l_movement_speed |-> col["controller_l_speed"] ]),
          user_emotion |-> col["user_emotion"],
          emotion_window_flag |-> col["emotion_window_flag"] ])

\* resp.flat keeps the ids of the rows the nested records were built from
\* (the response itself carries only resp.body).
Download(s) ==
    /\ phase = "serving"
    /\ LET b == GetDbConnection IN
       IF b = "none" \/ (b # "none" /\ ~db[b].table)
       THEN resp' = [op |-> "download", status |-> 500, backend |-> b,
                     session_id |-> s, flat |-> <<>>, body |-> <<>>]
       ELSE \E flat_records \in SessionQuery(b, s) :
            resp' = [op |-> "download", status |-> 200, backend |-> b,
                     session_id |-> s,
                     flat |-> [i \in 1..Len(flat_records) |-> flat_records[i].id],
                     body |-> [i \in 1..Len(flat_records) |->
                                   Unflatten(flat_records[i])]]
    /\ prevList' = NoResp
    /\ pre' = Snapshot
    /\ conns' = ConnsOfQuery(GetDbConnection)
    /\ UNCHANGED <<config, pgUp, phase, startup, db, now, ingested>>
    /\ UNCHANGED workers

(***************************************************************************)
(* GET /api/stats, GET /api/health, DELETE /api/clear                      *)
(***************************************************************************)
TopN == 5
DayTicks == 1

EmotionGroupsKeepsEmpty(rows) ==
    LET kept == {r \in rows : r.cols["user_emotion"].t # "null"}
    IN  { [ emotion |-> e,
            count |-> Cardinality({r \in kept : r.cols["user_emotion"] = e}) ]
          : e \in {r.cols["user_emotion"] : r \in kept} }

\* SELECT user_emotion, COUNT(*) as count FROM session_records
\* WHERE user_emotion IS NOT NULL AND user_emotion != '' GROUP BY user_emotion
EmotionGroups(rows) ==
    LET kept == {r \in rows : /\ r.cols["user_emotion"].t # "null"
                              /\ r.cols["user_emotion"] # Str("")}
    IN  { [ emotion |-> e,
            count |-> Cardinality({r \in kept : r.cols["user_emotion"] = e}) ]
          : e \in {r.cols["user_emotion"] : r \in kept} }

\* ... ORDER BY count DESC LIMIT 5
TopEmotions(rows) ==
    LET G == EmotionGroups(rows)
    IN  { LimitOffset(order, TopN, 0) :
          order \in Orderings(G, [p \in G \X G |-> p[1].count >= p[2].count]) }

\* WHERE created_at >= now - 1 day
RecentRecords(rows, t) == Cardinality({r \in rows : r.created_at >= t - DayTicks})

GetStats ==
    /\ phase = "serving"
    /\ LET b == GetDbConnection IN
       IF b = "none" \/ (b # "none" /\ ~db[b].table)
       THEN resp' = [op |-> "stats", status |-> 500, backend |-> b,
                     total_records |-> 0, unique_sessions |-> 0,
                     recent_records_24h |-> 0, top_emotions |-> <<>>]
       ELSE \E top_emotions \in TopEmotions(Rows(b)) :
            resp' = [op |-> "stats", status |-> 200, backend |-> b,
                     total_records |-> TotalRecords(Rows(b)),
                     unique_sessions |-> UniqueSessions(Rows(b)),
                     recent_records_24h |-> RecentRecords(Rows(b), now),
                     top_emotions |-> top_emotions]
    /\ prevList' = NoResp
    /\ pre' = Snapshot
    /\ conns' = ConnsOfQuery(GetDbConnection)
    /\ UNCHANGED <<config, pgUp, phase, startup, db, now, ingested>>
    /\ UNCHANGED workers

HealthCheck ==
    /\ phase = "serving"
    /\ LET b == GetDbConnection IN
       resp' =
         IF b = "none" \/ (b # "none" /\ ~db[b].table)
         THEN [op |-> "health", status |-> "unhealthy", backend |-> b,
               total_records |-> 0, total_sessions |-> 0]
         ELSE [op |-> "health", status |-> "healthy", backend |-> b,
               total_records |-> TotalRecords(Rows(b)),
               total_sessions |-> UniqueSessions(Rows(b))]
    /\ prevList' = NoResp
    /\ pre' = Snapshot
    /\ conns' = ConnsOfQuery(GetDbConnection)
    /\ UNCHANGED <<config, pgUp, phase, startup, db, now, ingested>>
    /\ UNCHANGED workers

\* DELETE FROM session_records: the id counters are not reset.
ClearData ==
    /\ phase = "serving"
    /\ LET b == GetDbConnection IN
       IF b = "none" \/ (b # "none" /\ ~db[b].table)
       THEN /\ resp' = [op |-> "clear", status |-> 500, backend |-> b]
            /\ UNCHANGED db
       ELSE /\ resp' = [op |-> "clear", status |-> 200, backend |-> b]
            /\ db' = [db EXCEPT ![b].rows = {}]
    /\ prevList' = NoResp
    /\ pre' = Snapshot
    /\ conns' = ConnsOfQuery(GetDbConnection)
    /\ UNCHANGED <<config, pgUp, phase, startup, now, ingested>>
    /\ UNCHANGED workers

(***************************************************************************)
(* The server: init_db, then requests one at a time.                       *)
(***************************************************************************)
Next ==
    \/ InitDb
    \/ Tick
    \/ \E f \in GeneralUploads : Upload(f, MaxId)
    \/ \E l \in 0..MaxLimit, o \in 0..MaxOffset : GetSessions(l, o)
    \/ \E s \in SessionIds : GetSessionById(s)
    \/ \E s \in SessionIds : Download(s)
    \/ GetStats
    \/ HealthCheck
    \/ ClearData

Spec == Init /\ [][Next]_vars

\* The PostgreSQL server becomes unreachable, or reachable again, while the
\* process runs.
PgFlips ==
    /\ phase = "serving"
    /\ config # "sqlite"
    /\ pgUp' = ~pgUp
    /\ UNCHANGED <<config, phase, startup, db, now, resp, prevList, pre, ingested,
                   conns>>
    /\ UNCHANGED workers

NextOutage == Next \/ PgFlips

SpecOutage == Init /\ [][NextOutage]_vars

\* The server under uploads that differ in their emotions, and its statistics.
NextStats ==
    \/ InitDb
    \/ \E f \in StatsUploads : Upload(f, MaxStatsId)
    \/ GetStats
    \/ ClearData

SpecStats == Init /\ [][NextStats]_vars

(***************************************************************************)
(* Several server processes on one database.  A handler has no await       *)
(* between its statements, so one process runs its handlers one after the  *)
(* other; processes interleave statement by statement.  An INSERT is       *)
(* visible to the other connections once its connection has committed.     *)
(***************************************************************************)
MaxTxnId == 4

\* The files the workers upload: two rows; a row, then an element that is not
\* an object; a row, then a record without session_id.
WorkerUploads == {6, 8, 9}

\* The rows a statement on another connection reads: the committed ones, and
\* with them the rows the open transactions have inserted.
VisibleUncommitted(b) ==
    db[b].rows \cup
        UNION {txn[p].rows : p \in {q \in Workers : txn[q].backend = b
                                                    /\ txn[q].pc = "loop"}}

\* The rows a statement on another connection reads: the committed ones
\* (READ COMMITTED on PostgreSQL; SQLite shows a transaction's writes to the
\* other connections at its commit).
Visible(b) == db[b].rows

\* The elements the running loops have yet to insert.
RECURSIVE Unfinished(_)
Unfinished(S) ==
    IF S = {} THEN 0
    ELSE LET p == CHOOSE q \in S : TRUE IN
         (IF txn[p].pc = "loop"
          THEN Len(Files[txn[p].file].body.l) - txn[p].i + 1 ELSE 0)
         + Unfinished(S \ {p})

\* Another connection holds SQLite's write lock: it has written and has neither
\* committed nor been dropped.
Locked(p, b) ==
    /\ b = "sqlite"
    /\ \E q \in Workers \ {p} :
          /\ txn[q].backend = "sqlite"
          /\ txn[q].wrote
          /\ txn[q].pc \in {"loop", "failed"}

\* Worker p enters upload_session_data with an array and gets its connection.
BeginUpload(p, f) ==
    /\ phase = "serving"
    /\ txn[p].pc = "idle"
    /\ LET b == GetDbConnection IN
       /\ b # "none"
       /\ db[b].seq + Unfinished(Workers) + Len(Files[f].body.l) <= MaxTxnId
       /\ txn' = [txn EXCEPT ![p] =
                     [pc |-> "loop", file |-> f, i |-> 1, backend |-> b,
                      rows |-> {}, wrote |-> FALSE, seq0 |-> db[b].seq]]
    /\ UNCHANGED <<config, pgUp, phase, startup, db, now, resp, prevList, pre,
                   ingested, conns, seen>>

\* The INSERT with these parameters gets as far as the table: building the
\* parameters and binding them did not raise, and the table exists.
Executes(b, hasTable, args) ==
    /\ ~ArgsRaise(args)
    /\ \A c \in Columns : Coerce(b, c, args[c]).t # "raise"
    /\ hasTable

\* One turn of the for loop of worker p: the INSERT of the next element.  On
\* SQLite an INSERT that finds the write lock taken raises "database is
\* locked" once its wait is over.  A turn that raises leaves the handler
\* through `except Exception`; SQLite's counter goes back with the rows.
InsertNext(p) ==
    LET t == txn[p]
        b == t.backend
        d == db[b]
        data == Files[t.file].body.l
        args == InsertArgs(data[t.i])
        one == InsertLoop(b, d.table, <<data[t.i]>>, 1, t.rows, d.seq, now)
        seq0 == IF t.wrote THEN t.seq0 ELSE d.seq
    IN
    /\ t.pc = "loop"
    /\ t.i <= Len(data)
    /\ IF Executes(b, d.table, args) /\ Locked(p, b) THEN
           /\ txn' = [txn EXCEPT ![p].pc = "failed"]
           /\ resp' = UploadFailed(500, b, t.file)
           /\ UNCHANGED db
       ELSE IF one.ok THEN
           /\ txn' = [txn EXCEPT ![p].rows = one.rows, ![p].i = t.i + 1,
                                 ![p].wrote = TRUE, ![p].seq0 = seq0]
           /\ db' = [db EXCEPT ![b].seq = one.seq]
           /\ UNCHANGED resp
       ELSE
           /\ txn' = [txn EXCEPT ![p].pc = "failed",
                                 ![p].wrote = t.wrote \/ Executes(b, d.table, args),
                                 ![p].seq0 = seq0]
           /\ db' = [db EXCEPT ![b].seq = IF b = "pg" THEN one.seq ELSE seq0]
           /\ resp' = UploadFailed(500, b, t.file)
    /\ UNCHANGED <<config, pgUp, phase, startup, now, prevList, pre, ingested,
                   conns, seen>>

\* conn.commit() after the loop.
CommitUpload(p) ==
    LET t == txn[p] IN
    /\ t.pc = "loop"
    /\ t.i > Len(Files[t.file].body.l)
    /\ db' = [db EXCEPT ![t.backend].rows = @ \cup t.rows]
    /\ txn' = [txn EXCEPT ![p].pc = "count"]
    /\ UNCHANGED <<config, pgUp, phase, startup, now, resp, prevList, pre,
                   ingested, conns, seen>>

\* The workers with uncommitted rows on backend b.
InFlight(b) ==
    {q \in Workers : txn[q].backend = b /\ txn[q].pc = "loop" /\ txn[q].rows # {}}

\* SELECT COUNT(DISTINCT session_id) on a new connection, and the response.
CountSessions(p) ==
    LET t == txn[p]
        b == GetDbConnection
    IN
    /\ t.pc = "count"
    /\ txn' = [txn EXCEPT ![p] = Idle]
    /\ IF b = "none" \/ (b # "none" /\ ~db[b].table) THEN
           /\ resp' = UploadFailed(500, b, t.file)
           /\ UNCHANGED seen
       ELSE
           /\ seen' = [op |-> "upload", rows |-> Visible(b), inflight |-> InFlight(b)]
           /\ resp' = [op |-> "upload", status |-> 200, backend |-> b,
                       file |-> t.file,
                       records_added |-> Len(Files[t.file].body.l),
                       total_sessions |-> UniqueSessions(Visible(b))]
    /\ UNCHANGED <<config, pgUp, phase, startup, db, now, prevList, pre,
                   ingested, conns>>

\* The connection of a handler that raised is finalised: what it had not
\* committed is rolled back.
DropConnection(p) ==
    /\ txn[p].pc = "failed"
    /\ txn' = [txn EXCEPT ![p] = Idle]
    /\ UNCHANGED <<config, pgUp, phase, startup, db, now, resp, prevList, pre,
                   ingested, conns, seen>>

\* One SELECT on session_records of get_sessions, get_session_by_id, the
\* download, get_stats or health_check, in some worker.
Statement ==
    /\ phase = "serving"
    /\ LET b == GetDbConnection IN
       /\ b # "none"
       /\ db[b].table
       /\ seen' = [op |-> "select", rows |-> Visible(b), inflight |-> InFlight(b)]
    /\ UNCHANGED <<config, pgUp, phase, startup, db, now, resp, prevList, pre,
                   ingested, conns, txn>>

NextWorkers ==
    \/ InitDb
    \/ \E p \in Workers, f \in WorkerUploads : BeginUpload(p, f)
    \/ \E p \in Workers : InsertNext(p)
    \/ \E p \in Workers : CommitUpload(p)
    \/ \E p \in Workers : CountSessions(p)
    \/ \E p \in Workers : DropConnection(p)
    \/ Statement

SpecWorkers == Init /\ [][NextWorkers]_vars

(***************************************************************************)
(* Properties.                                                             *)
(***************************************************************************)
Absent == [t |-> "absent"]

\* The value at `path` of a nested record, Absent when a key on the way is
\* missing or a value on the way is not an object.
RECURSIVE Leaf(_, _)
Leaf(v, path) ==
    IF Len(path) = 0 THEN v
    ELSE IF v.t = "obj" /\ path[1] \in DOMAIN v.o THEN Leaf(v.o[path[1]], Tail(path))
    ELSE Absent

\* The uploaded record that row `id` of backend b was inserted from.
SourceOf(b, id) == Files[ingested[b][id][1]].body.l[ingested[b][id][2]]

Elements(file) == {file.body.l[k] : k \in 1..Len(file.body.l)}

\* C1: every record a download returns carries, at each of the 26 paths, the
\* value the uploaded record had there, null where it had none, and has all
\* of its sub-objects.
C1_RoundTrip ==
    (resp.op = "download" /\ resp.status = 200) =>
        \A i \in 1..Len(resp.body) :
            LET r == SourceOf(resp.backend, resp.flat[i])
                out == resp.body[i]
            IN  /\ \A c \in Columns :
                      Leaf(out, Path[c]) =
                          IF Leaf(r, Path[c]).t = "absent" THEN Null
                          ELSE Leaf(r, Path[c])
                /\ \A k \in 1..Len(Intermediates) :
                      Leaf(out, Intermediates[k]).t = "obj"

\* An intermediate of `path` is not supplied as an object in record e.
HollowAt(e, path) ==
    \E k \in 1..(Len(path) - 1) : Leaf(e, SubSeq(path, 1, k)).t # "obj"

\* C2: an upload of records that are objects with a session_id succeeds also
\* when intermediate objects are not supplied as objects, and every leaf
\* under such an intermediate is stored as null.
C2_MissingIntermediateTolerated ==
    LET file == Files[resp.file] IN
    ( /\ resp.op = "upload"
      /\ file.json_ext /\ file.body.t = "list"
      /\ \A e \in Elements(file) :
            e.t = "obj" /\ Leaf(e, <<"session_id">>).t = "str" ) =>
        /\ resp.status = 200
        /\ \A r \in Rows(resp.backend) : \A c \in Columns :
              ( /\ ingested[resp.backend][r.id][1] = resp.file
                /\ HollowAt(SourceOf(resp.backend, r.id), Path[c]) )
              => r.cols[c] = Null

\* C3: a successful upload of N records answers records_added = N, adds N to
\* the number of records and adds the number of session ids of the batch
\* that were not stored before to the number of sessions.
C3_UploadCounts ==
    (resp.op = "upload" /\ resp.status = 200) =>
        LET b == resp.backend
            data == Files[resp.file].body.l
            batch == {Leaf(data[k], <<"session_id">>) : k \in 1..Len(data)}
            before == {r.cols["session_id"] : r \in pre[b]}
        IN  /\ resp.records_added = Len(data)
            /\ TotalRecords(Rows(b)) = Cardinality(pre[b]) + Len(data)
            /\ UniqueSessions(Rows(b)) =
                   Cardinality(before) + Cardinality(batch \ before)
            /\ resp.total_sessions = UniqueSessions(Rows(b))

C3_Witness ==
    /\ resp.op = "upload" /\ resp.status = 200
    /\ resp.records_added = 2
    /\ pre[resp.backend] # {}
    /\ UniqueSessions(Rows(resp.backend)) = UniqueSessions(pre[resp.backend])

\* The file is not JSON, not an array, or holds an element that is no object.
Rejected(file) ==
    \/ file.body.t = "invalid"
    \/ file.body.t # "list"
    \/ \E e \in Elements(file) : e.t # "obj"

\* C4: a rejected upload fails and leaves the rows of every backend as they
\* were.
C4_RejectedWritesNothing ==
    (resp.op = "upload" /\ Rejected(Files[resp.file])) =>
        /\ resp.status # 200
        /\ \A b \in Backends : Rows(b) = pre[b]

C4_Witness ==
    /\ resp.op = "upload" /\ resp.status = 500 /\ resp.backend # "none"
    /\ Files[resp.file].body.t = "list"
    /\ Len(Files[resp.file].body.l) = 2
    /\ Files[resp.file].body.l[1].t = "obj"
    /\ Files[resp.file].body.l[2].t # "obj"
    /\ pre[resp.backend] # {}

\* C5: the page at offset 0 and the page of the same limit L >= 1 that
\* follows it share no session, hold min(2L, T) sessions together, and are
\* in descending order of created.
C5_Pagination ==
    (prevList.op = "sessions" /\ resp.op = "sessions" /\ ~resp.error
     /\ resp.limit >= 1) =>
        LET all == prevList.items \o resp.items
            T == UniqueSessions(Rows(resp.backend))
        IN  /\ \A i, j \in 1..Len(all) :
                  i # j => all[i].session_id # all[j].session_id
            /\ Len(all) = Min(2 * resp.limit, T)
            /\ \A i, j \in 1..Len(all) :
                  i < j => all[i].created.at >= all[j].created.at

\* C6: a session list has one item per session at most; an item counts the
\* rows of its session and carries the earliest created_at among them; total
\* is the number of sessions stored.
C6_ListContent ==
    (resp.op = "sessions" /\ ~resp.error) =>
        LET rows == Rows(resp.backend) IN
        /\ \A i, j \in 1..Len(resp.items) :
              i # j => resp.items[i].session_id # resp.items[j].session_id
        /\ \A i \in 1..Len(resp.items) :
              LET mine == {r \in rows :
                              r.cols["session_id"] = resp.items[i].session_id}
              IN  /\ resp.items[i].records = Cardinality(mine)
                  /\ \E r \in mine : r.created_at = resp.items[i].created.at
                  /\ \A r \in mine : r.created_at >= resp.items[i].created.at
        /\ resp.total = Cardinality({r.cols["session_id"] : r \in rows})

C6_Witness ==
    /\ resp.op = "sessions" /\ ~resp.error
    /\ \E i \in 1..Len(resp.items) :
          /\ resp.items[i].records >= 2
          /\ \E r \in Rows(resp.backend) :
                /\ r.cols["session_id"] = resp.items[i].session_id
                /\ r.created_at > resp.items[i].created.at

\* C7 as stated: has_more is true exactly when the page has `limit` items.
C7_HasMoreIffFull ==
    resp.op = "sessions" =>
        (resp.has_more <=> Len(resp.items) = resp.limit)

\* C7, amended: has_more is true exactly when at least one session is
\* stored and the page has `limit` items.
C7_HasMoreAmended ==
    resp.op = "sessions" =>
        (resp.has_more <=> (resp.total > 0 /\ Len(resp.items) = resp.limit))

C7_Witness ==
    /\ resp.op = "sessions" /\ resp.has_more /\ resp.limit >= 1
    /\ resp.offset + Len(resp.items) = resp.total

\* C8: the records of a session are exactly the stored rows with that
\* session_id, in ascending lexical order of timestamp; a session nothing
\* is stored for gives the empty sequence, not an error.
C8_GetSession ==
    resp.op = "session" =>
        LET recs == resp.records
            mine == {r \in Rows(resp.backend) :
                        r.cols["session_id"] = Str(resp.session_id)}
        IN  /\ resp.status = 200
            /\ {recs[i] : i \in 1..Len(recs)} = mine
            /\ Len(recs) = Cardinality(mine)
            /\ \A i, j \in 1..Len(recs) :
                  ( /\ i < j
                    /\ recs[i].cols["timestamp"].t = "str"
                    /\ recs[j].cols["timestamp"].t = "str" )
                  => LexLeq(Chars[recs[i].cols["timestamp"].s],
                            Chars[recs[j].cols["timestamp"].s])

C8_Witness ==
    /\ resp.op = "session" /\ Len(resp.records) >= 3
    /\ \E i \in 1..Len(resp.records) : \E j \in 1..Len(resp.records) :
          /\ i < j
          /\ resp.records[i].cols["timestamp"] = Str("10")
          /\ resp.records[j].cols["timestamp"] = Str("9")
          /\ resp.records[i].id > resp.records[j].id

\* C9: top_emotions lists no null and no empty emotion, five entries at
\* most, each with the number of rows of that emotion, in descending order
\* of count, and leaves out no emotion that has more rows than a listed one.
C9_TopEmotions ==
    (resp.op = "stats" /\ resp.status = 200) =>
        LET top == resp.top_emotions
            rows == Rows(resp.backend)
            Count(e) == Cardinality({r \in rows : r.cols["user_emotion"] = e})
            listed == {top[i].emotion : i \in 1..Len(top)}
        IN  /\ Len(top) <= 5
            /\ Cardinality(listed) = Len(top)
            /\ \A i \in 1..Len(top) :
                  /\ top[i].emotion.t = "str"
                  /\ top[i].emotion # Str("")
                  /\ top[i].count = Count(top[i].emotion)
            /\ \A i, j \in 1..Len(top) : i < j => top[i].count >= top[j].count
            /\ \A r \in rows :
                  LET e == r.cols["user_emotion"] IN
                  (e.t = "str" /\ e # Str("") /\ e \notin listed) =>
                      /\ Len(top) = 5
                      /\ \A i \in 1..Len(top) : Count(e) <= top[i].count

C9_Witness ==
    /\ resp.op = "stats" /\ resp.status = 200
    /\ Len(resp.top_emotions) = 5
    /\ resp.top_emotions[1].count = 2
    /\ \E r \in Rows(resp.backend) : r.cols["user_emotion"] = Str("")
    /\ \E r \in Rows(resp.backend) : r.cols["user_emotion"] = Null
    /\ \E r \in Rows(resp.backend) :
          /\ r.cols["user_emotion"].t = "str"
          /\ r.cols["user_emotion"] # Str("")
          /\ \A i \in 1..5 : resp.top_emotions[i].emotion # r.cols["user_emotion"]

\* C10: every handler that gets a connection gets it to the backend init_db
\* connected to.
C10_BackendFixed ==
    (phase = "serving" /\ resp.op # "none" /\ resp.backend # "none") =>
        resp.backend = startup

\* C11: every connection a handler acquired is closed when the handler has
\* returned or raised.
C11_ConnectionsClosed ==
    \A i \in 1..Len(conns) : conns[i].closed

\* The backend failed the handler that answered resp: get_db_connection
\* raised, or a statement did because the table is missing.
BackendFailed ==
    resp.backend = "none" \/ ~db[resp.backend].table

\* C12: when the backend fails during the request, /api/sessions and
\* /api/stats both answer an empty result that carries an error description,
\* and neither lets the failure reach the caller.
C12_DegradeToEmpty ==
    /\ (resp.op = "sessions" /\ BackendFailed) =>
           (resp.error /\ resp.items = <<>> /\ resp.total = 0)
    /\ (resp.op = "stats" /\ BackendFailed) =>
           (resp.status = 200 /\ resp.total_records = 0
            /\ resp.top_emotions = <<>>)

\* C13: on either backend, every item of a session list carries created as
\* the stored instant written with T between date and time and Z after the
\* time.
C13_CreatedSameForm ==
    (resp.op = "sessions" /\ ~resp.error) =>
        \A i \in 1..Len(resp.items) :
            /\ resp.items[i].created.sep = "T"
            /\ resp.items[i].created.suffix = "Z"

\* C14: a successful /api/sessions response has the key "sessions", and every
\* entry of the list under it has the keys session_id and user_emotion.
C14_SessionsKey ==
    (resp.op = "sessions" /\ ~resp.error) =>
        /\ "sessions" \in DOMAIN resp.body
        /\ \A i \in 1..Len(resp.body["sessions"]) :
              {"session_id", "user_emotion"} \subseteq DOMAIN resp.body["sessions"][i]

ReadOps == {"sessions", "session", "download", "stats", "health"}

\* C15: the rows of a backend change only by an upload, which adds rows and
\* keeps every stored row with its id, created_at and 26 columns, or by a
\* clear, which removes them all; a session list, a session read, a download,
\* the statistics and the health check leave the rows as they were; no two
\* rows share an id.
C15_Lifecycle ==
    \A b \in Backends :
        /\ resp.op \in ReadOps => Rows(b) = pre[b]
        /\ Rows(b) # pre[b] =>
              \/ resp.op = "upload" /\ resp.status = 200 /\ resp.backend = b
                 /\ pre[b] \subseteq Rows(b)
                 /\ Cardinality(Rows(b)) > Cardinality(pre[b])
              \/ resp.op = "clear" /\ resp.status = 200 /\ resp.backend = b
                 /\ Rows(b) = {}
        /\ \A r, q \in Rows(b) : r.id = q.id => r = q

\* An upload added rows to rows stored at an earlier time.
C15_Witness ==
    /\ resp.op = "upload" /\ resp.status = 200
    /\ pre[resp.backend] # {}
    /\ Cardinality(Rows(resp.backend)) > Cardinality(pre[resp.backend])
    /\ \E r \in pre[resp.backend] : r.created_at < now

\* C16: of the rows an upload in progress has inserted, a SELECT of another
\* handler has read none, or, once the loop is over, all of them; of the rows
\* of an upload that raised, no SELECT has read any and none is stored.
C16_BatchAtomic ==
    \A p \in Workers :
        LET t == txn[p]
            whole == t.pc = "count" \/ t.i > Len(Files[t.file].body.l)
        IN
        /\ t.pc \in {"loop", "count"} =>
              \/ t.rows \cap seen.rows = {}
              \/ whole /\ t.rows \subseteq seen.rows
        /\ t.pc = "loop" => t.rows \cap Rows(t.backend) = {}
        /\ t.pc = "failed" =>
              /\ t.rows \cap seen.rows = {}
              /\ t.rows \cap Rows(t.backend) = {}

\* A SELECT ran while a worker had inserted the first of its two rows and
\* read the committed rows of another upload; that worker is still in its
\* loop.
C16_Witness ==
    \E p \in seen.inflight :
        /\ txn[p].pc = "loop"
        /\ txn[p].rows # {}
        /\ txn[p].i <= Len(Files[txn[p].file].body.l)
        /\ seen.rows # {}

====
